---- MODULE Spec2Model ----
(***************************************************************************)
(* Model of src/tokenizer_server.py: a FastAPI process that loads one      *)
(* tokenizer at import time and serves POST /tokenize.                     *)
(*                                                                         *)
(* The module body (lines 5-12) runs once, top to bottom; `pc` is its      *)
(* position.  After it, the framework serves requests; a sync `def`        *)
(* handler runs in a thread pool, so several requests are in flight at     *)
(* once and their steps interleave.  Each request is a record holding the  *)
(* body sent, the handler's locals and the response delivered.             *)
(*                                                                         *)
(* Text is a sequence of one-character strings.                            *)
(***************************************************************************)
EXTENDS Integers, Sequences, FiniteSets, TLC

\* Number of requests the process receives in one behaviour.
MaxRequests == 3

Requests == 1..MaxRequests

VARIABLES
    pc,         \* position in the module body: "L5","L6","L8","L11","serving","crashed"
    app,        \* the FastAPI object of line 5
    tokenizer,  \* the module-level binding of line 6
    loads,      \* paths handed to Tokenizer.from_file so far, in order
    fs,         \* the filesystem: path -> file content (read only by line 6)
    pydantic,   \* major version of the installed pydantic (the source pins none)
    reqs        \* request id -> request record

vars == <<pc, app, tokenizer, loads, fs, pydantic, reqs>>

-----------------------------------------------------------------------------
(* The tokenizer file and the tokenizer built from it.                     *)

TokenizerPath == "models/all-MiniLM-L6-v2/tokenizer.json"
OtherPath == "models/other/tokenizer.json"
Paths == {TokenizerPath, OtherPath}

\* Ids of the special tokens and of the characters in the vocabulary.
SpecialIds == [pad |-> 0, unk |-> 100, cls |-> 101, sep |-> 102]
TokenId == ("a" :> 1037) @@ ("1" :> 1015)

\* What a tokenizer.json can configure: whether [UNK] is in the vocabulary,
\* fixed-length padding (0 = off) and truncation (0 = off).
Configs ==
    { [hasUnk |-> TRUE,  padTo |-> 0, maxLen |-> 0],
      [hasUnk |-> FALSE, padTo |-> 0, maxLen |-> 0],
      [hasUnk |-> TRUE,  padTo |-> 4, maxLen |-> 3] }

DecoyConfig == [hasUnk |-> TRUE, padTo |-> 6, maxLen |-> 0]

NoConfig == [hasUnk |-> FALSE, padTo |-> 0, maxLen |-> 0]

FileContents ==
    { [state |-> "absent",  config |-> NoConfig],
      [state |-> "corrupt", config |-> NoConfig] }
    \cup { [state |-> "ok", config |-> c] : c \in Configs }

NoTokenizer == [bound |-> FALSE, config |-> NoConfig]

NoEncoding == [ok |-> FALSE, ids |-> <<>>, attention_mask |-> <<>>]

\* tokenizer.encode(text): the Encoding, or ok = FALSE when encode raises
\* (a character outside the vocabulary with no [UNK] token to map it to).
Encode(tk, text) ==
    LET known(c) == c \in DOMAIN TokenId
        raises == ~tk.config.hasUnk /\ \E i \in 1..Len(text) : ~known(text[i])
        content == [i \in 1..Len(text) |->
                      IF known(text[i]) THEN TokenId[text[i]] ELSE SpecialIds.unk]
        cut == IF tk.config.maxLen > 0 /\ Len(content) + 2 > tk.config.maxLen
               THEN SubSeq(content, 1, tk.config.maxLen - 2)
               ELSE content
        real == <<SpecialIds.cls>> \o cut \o <<SpecialIds.sep>>
        padN == IF tk.config.padTo > Len(real) THEN tk.config.padTo - Len(real) ELSE 0
    IN  IF raises
        THEN NoEncoding
        ELSE [ok |-> TRUE,
              ids |-> real \o [i \in 1..padN |-> SpecialIds.pad],
              attention_mask |-> [i \in 1..Len(real) |-> 1] \o [i \in 1..padN |-> 0]]

-----------------------------------------------------------------------------
(* Request bodies and their validation against TextInput.                  *)

Texts == { <<>>, <<"a">>, <<"z">>, <<"a", "z">> }
Nums == { 7, 12 }

Body(kind, str, num, bool) == [kind |-> kind, str |-> str, num |-> num, bool |-> bool]

\* JSON bodies a client can send: no `text` key, or `text` of each JSON type.
Bodies ==
    { Body(k, <<>>, 0, FALSE) : k \in {"missing", "null", "list", "dict"} }
    \cup { Body("str", t, 0, FALSE) : t \in Texts }
    \cup { Body("int", <<>>, n, FALSE) : n \in Nums }
    \cup { Body("bool", <<>>, 0, b) : b \in BOOLEAN }

NoBody == Body("none", <<>>, 0, FALSE)

DigitChar == <<"0", "1", "2", "3", "4", "5", "6", "7", "8", "9">>

\* Python's str() of a non-negative int and of a bool.
RECURSIVE PyStrInt(_)
PyStrInt(n) ==
    IF n < 10 THEN <<DigitChar[n + 1]>>
    ELSE Append(PyStrInt(n \div 10), DigitChar[(n % 10) + 1])

PyStrBool(b) == IF b THEN <<"T", "r", "u", "e">> ELSE <<"F", "a", "l", "s", "e">>

\* Variants of the validation: `text: str = ""` and `text: constr(min_length=1)`.
ValidateDefaultEmpty(major, body) ==
    CASE body.kind \in {"str", "missing"} -> [ok |-> TRUE, text |-> body.str]
      [] OTHER -> [ok |-> FALSE, text |-> <<>>]

ValidateNonEmpty(major, body) ==
    CASE body.kind = "str" /\ body.str # <<>> -> [ok |-> TRUE, text |-> body.str]
      [] OTHER -> [ok |-> FALSE, text |-> <<>>]

\* Validation of the body against `text: str`.  pydantic 2 accepts a JSON
\* string only; pydantic 1's str validator also takes int (and bool, an int
\* subclass) through str().  None, list, dict and a missing key are errors
\* in both.
Validate(major, body) ==
    CASE body.kind = "str" -> [ok |-> TRUE, text |-> body.str]
      [] body.kind = "int" /\ major = 1 -> [ok |-> TRUE, text |-> PyStrInt(body.num)]
      [] body.kind = "bool" /\ major = 1 -> [ok |-> TRUE, text |-> PyStrBool(body.bool)]
      [] OTHER -> [ok |-> FALSE, text |-> <<>>]

-----------------------------------------------------------------------------
(* Responses.                                                              *)

Response(status, keys, ids, mask) ==
    [status |-> status, keys |-> keys, ids |-> ids, attention_mask |-> mask]

NoResponse == Response(0, {}, <<>>, <<>>)
UnprocessableEntity == Response(422, {"detail"}, <<>>, <<>>)
InternalServerError == Response(500, {}, <<>>, <<>>)

\* Variants of the returned dict: ids[:3] / attention_mask[:3], and a mask
\* that leaves the padding positions out.
TokenizeResponseTruncated(encoding) ==
    Response(200, {"ids", "attention_mask"},
             [i \in 1..(IF Len(encoding.ids) < 3 THEN Len(encoding.ids) ELSE 3)
                |-> encoding.ids[i]],
             [i \in 1..(IF Len(encoding.attention_mask) < 3
                        THEN Len(encoding.attention_mask) ELSE 3)
                |-> encoding.attention_mask[i]])

TokenizeResponseUnpaddedMask(encoding) ==
    Response(200, {"ids", "attention_mask"}, encoding.ids,
             SelectSeq(encoding.attention_mask, LAMBDA m : m = 1))

\* The dict literal of lines 14-17.
TokenizeResponse(encoding) ==
    Response(200, {"ids", "attention_mask"}, encoding.ids, encoding.attention_mask)

NewRequest ==
    [pc |-> "new", body |-> NoBody, text |-> <<>>, encoding |-> NoEncoding,
     calls |-> 0, response |-> NoResponse]

-----------------------------------------------------------------------------
(* Initial state and the module body.                                      *)

Init ==
    /\ pc = "L5"
    /\ app = [created |-> FALSE, routes |-> {}]
    /\ tokenizer = NoTokenizer
    /\ loads = <<>>
    /\ fs \in { f \in [Paths -> FileContents \cup {[state |-> "ok", config |-> DecoyConfig]}] :
                  /\ f[OtherPath] = [state |-> "ok", config |-> DecoyConfig]
                  /\ f[TokenizerPath] \in FileContents }
    /\ pydantic \in {1, 2}
    /\ reqs = [r \in Requests |-> NewRequest]

\* line 5: app = FastAPI()
CreateApp ==
    /\ pc = "L5"
    /\ app' = [app EXCEPT !.created = TRUE]
    /\ pc' = "L6"
    /\ UNCHANGED <<tokenizer, loads, fs, pydantic, reqs>>

\* Variant of line 6 that swallows the failure and goes on without a tokenizer.
LoadTokenizerSwallow ==
    /\ pc = "L6"
    /\ loads' = Append(loads, TokenizerPath)
    /\ tokenizer' = IF fs[TokenizerPath].state = "ok"
                    THEN [bound |-> TRUE, config |-> fs[TokenizerPath].config]
                    ELSE tokenizer
    /\ pc' = "L8"
    /\ UNCHANGED <<app, fs, pydantic, reqs>>

\* line 6: tokenizer = Tokenizer.from_file("models/all-MiniLM-L6-v2/tokenizer.json")
\* from_file raises on an absent or unparsable file; nothing catches it, so the
\* import, and with it the process, ends.
LoadTokenizer ==
    /\ pc = "L6"
    /\ loads' = Append(loads, TokenizerPath)
    /\ IF fs[TokenizerPath].state = "ok"
       THEN /\ tokenizer' = [bound |-> TRUE, config |-> fs[TokenizerPath].config]
            /\ pc' = "L8"
       ELSE /\ tokenizer' = tokenizer
            /\ pc' = "crashed"
    /\ UNCHANGED <<app, fs, pydantic, reqs>>

\* lines 8-9: class TextInput(BaseModel)
DefineTextInput ==
    /\ pc = "L8"
    /\ pc' = "L11"
    /\ UNCHANGED <<app, tokenizer, loads, fs, pydantic, reqs>>

\* lines 11-12: @app.post("/tokenize") registers the handler; the module body
\* is over and the server starts serving.
RegisterRoute ==
    /\ pc = "L11"
    /\ app' = [app EXCEPT !.routes = @ \cup {"/tokenize"}]
    /\ pc' = "serving"
    /\ UNCHANGED <<tokenizer, loads, fs, pydantic, reqs>>

-----------------------------------------------------------------------------
(* Handling a request.                                                     *)

\* A POST /tokenize arrives.  The framework validates the body against
\* TextInput before it calls the handler: an invalid body is answered 422 and
\* the handler never runs; a valid one enters the handler with req.text set.
Receive(r, body) ==
    /\ pc = "serving"
    /\ "/tokenize" \in app.routes
    /\ reqs[r].pc = "new"
    /\ \A q \in Requests : q < r => reqs[q].pc # "new"
    /\ LET v == Validate(pydantic, body)
       IN  reqs' = [reqs EXCEPT ![r] =
                IF v.ok
                THEN [@ EXCEPT !.pc = "L13", !.body = body, !.text = v.text]
                ELSE [@ EXCEPT !.pc = "done", !.body = body,
                               !.response = UnprocessableEntity]]
    /\ UNCHANGED <<pc, app, tokenizer, loads, fs, pydantic>>

\* Variants of line 13.
\* A fallback result in place of the exception.
EncodeStepFallback(r) ==
    /\ reqs[r].pc = "L13"
    /\ LET e == Encode(tokenizer, reqs[r].text)
       IN  reqs' = [reqs EXCEPT ![r] =
                [@ EXCEPT !.pc = "L14", !.calls = @ + 1,
                          !.encoding = IF e.ok THEN e ELSE [NoEncoding EXCEPT !.ok = TRUE]]]
    /\ UNCHANGED <<pc, app, tokenizer, loads, fs, pydantic>>

\* The text read from a buffer shared by the requests in flight.
EncodeStepShared(r) ==
    /\ reqs[r].pc = "L13"
    /\ \E s \in Requests :
         /\ reqs[s].pc = "L13"
         /\ LET e == Encode(tokenizer, reqs[s].text)
            IN  reqs' = [reqs EXCEPT ![r] =
                     IF e.ok
                     THEN [@ EXCEPT !.pc = "L14", !.encoding = e, !.calls = @ + 1]
                     ELSE [@ EXCEPT !.pc = "done", !.calls = @ + 1, !.text = <<>>,
                                    !.response = InternalServerError]]
    /\ UNCHANGED <<pc, app, tokenizer, loads, fs, pydantic>>

\* Padding switched on the shared tokenizer, to a length that grows per call.
EncodeStepStateful(r) ==
    /\ reqs[r].pc = "L13"
    /\ LET n == Cardinality({q \in Requests : reqs[q].calls > 0})
           e == Encode([tokenizer EXCEPT !.config.padTo = 3 + n], reqs[r].text)
       IN  reqs' = [reqs EXCEPT ![r] =
                IF e.ok
                THEN [@ EXCEPT !.pc = "L14", !.encoding = e, !.calls = @ + 1]
                ELSE [@ EXCEPT !.pc = "done", !.calls = @ + 1, !.text = <<>>,
                               !.response = InternalServerError]]
    /\ UNCHANGED <<pc, app, tokenizer, loads, fs, pydantic>>

\* The tokenizer loaded again, and rebound, on every request.
EncodeStepReload(r) ==
    /\ reqs[r].pc = "L13"
    /\ loads' = Append(loads, TokenizerPath)
    /\ tokenizer' = [bound |-> TRUE, config |-> fs[TokenizerPath].config]
    /\ LET e == Encode(tokenizer', reqs[r].text)
       IN  reqs' = [reqs EXCEPT ![r] =
                IF e.ok
                THEN [@ EXCEPT !.pc = "L14", !.encoding = e, !.calls = @ + 1]
                ELSE [@ EXCEPT !.pc = "done", !.calls = @ + 1, !.text = <<>>,
                               !.response = InternalServerError]]
    /\ UNCHANGED <<pc, app, fs, pydantic>>

\* line 13: encoding = tokenizer.encode(req.text)
\* An exception leaves the handler at once; the framework answers 500.
EncodeStep(r) ==
    /\ reqs[r].pc = "L13"
    /\ LET e == Encode(tokenizer, reqs[r].text)
       IN  reqs' = [reqs EXCEPT ![r] =
                IF e.ok
                THEN [@ EXCEPT !.pc = "L14", !.encoding = e, !.calls = @ + 1]
                ELSE [@ EXCEPT !.pc = "done", !.calls = @ + 1, !.text = <<>>,
                               !.response = InternalServerError]]
    /\ UNCHANGED <<pc, app, tokenizer, loads, fs, pydantic>>

\* lines 14-17: return {"ids": encoding.ids, "attention_mask": encoding.attention_mask}
\* The frame, with `req` and `encoding`, is gone after the return.
ReturnStep(r) ==
    /\ reqs[r].pc = "L14"
    /\ reqs' = [reqs EXCEPT ![r] =
            [@ EXCEPT !.pc = "done", !.text = <<>>, !.encoding = NoEncoding,
                      !.response = TokenizeResponse(reqs[r].encoding)]]
    /\ UNCHANGED <<pc, app, tokenizer, loads, fs, pydantic>>

Next ==
    \/ CreateApp
    \/ LoadTokenizer
    \/ DefineTextInput
    \/ RegisterRoute
    \/ \E r \in Requests, body \in Bodies : Receive(r, body)
    \/ \E r \in Requests : EncodeStep(r)
    \/ \E r \in Requests : ReturnStep(r)

Spec == Init /\ [][Next]_vars

-----------------------------------------------------------------------------
(* Properties.                                                             *)

Done(r) == reqs[r].pc = "done"
Handled(r) == reqs[r].pc # "new"
Succeeded(r) == Done(r) /\ reqs[r].response.status = 200
PayloadKeys == {"ids", "attention_mask"}

\* C1: a request whose body carries a textual `text` for which encode succeeds
\* is answered with exactly the ids and attention_mask encode returned for that
\* text: same elements, same order, same length.
C1_ExactTokenizerOutput ==
    \A r \in Requests :
        (Done(r) /\ reqs[r].body.kind = "str" /\ Encode(tokenizer, reqs[r].body.str).ok)
        => LET e == Encode(tokenizer, reqs[r].body.str)
           IN  reqs[r].response = Response(200, PayloadKeys, e.ids, e.attention_mask)

\* A text the tokenizer itself truncates and pads has been answered.
C1_Witness ==
    \E r \in Requests :
        /\ Succeeded(r)
        /\ reqs[r].body.kind = "str" /\ reqs[r].body.str = <<"a", "z">>
        /\ tokenizer.config.maxLen > 0 /\ tokenizer.config.padTo > 0

\* C2: a request whose body has no `text` field ends with 422, and encode is
\* not called at any point of its handling.
C2_MissingTextRejected ==
    \A r \in Requests :
        reqs[r].body.kind = "missing"
        => /\ Done(r)
           /\ reqs[r].response.status = 422
           /\ reqs[r].calls = 0

C2_Witness ==
    \E r \in Requests : reqs[r].body.kind = "missing" /\ Done(r)

\* C3: a request whose `text` is present but not a string (number, boolean,
\* list, object, null) ends with a client error and encode is never called
\* for it: the value is not coerced to a string and tokenized.
C3_NonTextRejected ==
    \A r \in Requests :
        reqs[r].body.kind \in {"int", "bool", "list", "dict", "null"}
        => /\ Done(r)
           /\ reqs[r].response.status = 422
           /\ reqs[r].calls = 0

\* C4: when encode fails for a valid request the response is 500 without an
\* ids/attention_mask payload, and encode is called at most once per request,
\* exactly once for the failed one.
C4_EncodeFailureIsServerError ==
    \A r \in Requests :
        /\ reqs[r].calls <= 1
        /\ LET v == Validate(pydantic, reqs[r].body)
           IN  (Done(r) /\ v.ok /\ ~Encode(tokenizer, v.text).ok)
               => /\ reqs[r].response.status = 500
                  /\ reqs[r].response.keys \cap PayloadKeys = {}
                  /\ reqs[r].response.ids = <<>>
                  /\ reqs[r].response.attention_mask = <<>>
                  /\ reqs[r].calls = 1

C4_Witness ==
    \E r \in Requests :
        /\ Done(r) /\ reqs[r].response.status = 500
        /\ ~Encode(tokenizer, Validate(pydantic, reqs[r].body).text).ok

\* C5: the tokenizer is constructed at most once, exactly once in a serving
\* process, always from the fixed path, and before any request is handled; a
\* failed construction ends the process with no route served and no request
\* ever handled.
C5_LoadedOnceBeforeServing ==
    /\ Len(loads) <= 1
    /\ \A i \in 1..Len(loads) : loads[i] = TokenizerPath
    /\ tokenizer.bound => tokenizer.config = fs[TokenizerPath].config
    /\ (pc = "serving" \/ \E r \in Requests : Handled(r))
       => (pc = "serving" /\ Len(loads) = 1 /\ tokenizer.bound)
    /\ (fs[TokenizerPath].state # "ok" /\ Len(loads) > 0)
       => /\ pc = "crashed"
          /\ "/tokenize" \notin app.routes
          /\ \A r \in Requests : ~Handled(r)

C5_Witness ==
    /\ Len(loads) = 1
    /\ \E r \in Requests : reqs[r].pc = "L13"

\* C6: every successful response has len(ids) = len(attention_mask).
C6_EqualLengths ==
    \A r \in Requests :
        Succeeded(r) => Len(reqs[r].response.ids) = Len(reqs[r].response.attention_mask)

\* A successful response that carries padding positions.
C6_Witness ==
    \E r \in Requests :
        /\ Succeeded(r)
        /\ \E i \in 1..Len(reqs[r].response.attention_mask) :
               reqs[r].response.attention_mask[i] = 0

\* C7: two requests of one process that carry the same `text` get identical
\* responses, whatever was handled before or between them.
C7_Determinism ==
    \A r, s \in Requests :
        (/\ Done(r) /\ Done(s)
         /\ reqs[r].body.kind = "str" /\ reqs[s].body.kind = "str"
         /\ reqs[r].body.str = reqs[s].body.str)
        => reqs[r].response = reqs[s].response

\* The first and third request carry the same text, the second another one.
C7_Witness ==
    /\ Succeeded(1) /\ Done(2) /\ Succeeded(3)
    /\ reqs[1].body.kind = "str" /\ reqs[2].body.kind = "str" /\ reqs[3].body.kind = "str"
    /\ reqs[1].body.str = reqs[3].body.str
    /\ reqs[2].body.str # reqs[1].body.str

\* C8: a request whose `text` is the empty string is valid: it reaches the
\* tokenizer and ends with a 200 response carrying both ids and attention_mask.
C8_EmptyStringAccepted ==
    \A r \in Requests :
        (reqs[r].body.kind = "str" /\ reqs[r].body.str = <<>>)
        => \/ reqs[r].pc \in {"L13", "L14"}
           \/ /\ Succeeded(r)
              /\ reqs[r].response.keys = PayloadKeys
              /\ reqs[r].calls = 1

C8_Witness ==
    \E r \in Requests :
        reqs[r].body.kind = "str" /\ reqs[r].body.str = <<>> /\ Succeeded(r)

\* C9: under any interleaving of requests in flight, the encoding a request
\* holds and the response it gets are the tokenizer's result for its own text;
\* no request waits for another (no lock), and a step of one request leaves
\* every other request's locals and response as they were.
C9_OwnEncoding ==
    \A r \in Requests :
        /\ reqs[r].pc = "L14" => reqs[r].encoding = Encode(tokenizer, reqs[r].text)
        /\ reqs[r].pc = "L13" => ENABLED EncodeStep(r)
        /\ reqs[r].pc = "L14" => ENABLED ReturnStep(r)

C9_StepIsolated ==
    \A r \in Requests :
        /\ (Handled(r) /\ reqs'[r].pc = reqs[r].pc) => reqs'[r] = reqs[r]
        /\ (reqs[r].pc = "L14" /\ reqs'[r].pc = "done")
           => reqs'[r].response = TokenizeResponse(Encode(tokenizer, reqs[r].text))

C9_NoCrossTalk == []C9_OwnEncoding /\ [][C9_StepIsolated]_vars

\* Two requests with different texts hold their encodings at the same time.
C9_Witness ==
    \E r, s \in Requests :
        /\ reqs[r].pc = "L14" /\ reqs[s].pc = "L14"
        /\ reqs[r].text # reqs[s].text

\* C10: handling a request, whatever its outcome, leaves the process-wide
\* state (the tokenizer binding, the app, the files) as it was, and nothing of
\* the request's frame is left once it has been answered.
C10_ProcessStateKept ==
    pc = "serving"
    => /\ tokenizer' = tokenizer
       /\ app' = app
       /\ loads' = loads
       /\ fs' = fs
       /\ pydantic' = pydantic
       /\ pc' = pc

C10_FrameGone ==
    \A r \in Requests : Done(r) => (reqs[r].text = <<>> /\ reqs[r].encoding = NoEncoding)

C10_FrameEffect == [][C10_ProcessStateKept]_vars /\ []C10_FrameGone

\* One request of each outcome has been answered.
C10_Witness ==
    /\ tokenizer.bound
    /\ \E r, s, t \in Requests :
        /\ Done(r) /\ Done(s) /\ Done(t)
        /\ reqs[r].response.status = 200
        /\ reqs[s].response.status = 422
        /\ reqs[t].response.status = 500

====
